---- MODULE Spec2Model ----
(***************************************************************************)
(* Model of the Verihash message hasher, src/rust/src/decoder/hasher.rs.   *)
(*                                                                         *)
(* The digest is modelled by the sequence of bytes fed to digest.input(),  *)
(* in order (the hash function itself is an opaque collaborator).          *)
(*                                                                         *)
(* Machine integers.  A usize/u64/i64 value v is represented by its signed *)
(* residue: the integer n with n = v (mod 2^64) and -2^63 <= n < 2^63.     *)
(* So n >= 0 stands for the small value n and n < 0 stands for the huge    *)
(* unsigned value 2^64 + n (for an i64, for the negative number n itself). *)
(* On residues, wrapping subtraction modulo 2^64 is integer subtraction    *)
(* (all magnitudes in the model stay far below 2^63), equality of machine  *)
(* words is equality of residues, and unsigned order is ULt below.         *)
(***************************************************************************)
EXTENDS Integers, Sequences, FiniteSets, TLC

(***************************************************************************)
(* Bounds of the model.                                                    *)
(***************************************************************************)
MaxCalls == 4       \* hash_event calls made on the Hasher
MaxLen == 2         \* largest length / remaining an event declares
MaxChunk == 1       \* largest number of bytes one ValueChunk carries
MaxTag == 2         \* tags are 1..MaxTag

(***************************************************************************)
(* Wire vocabulary (crate::field).                                         *)
(***************************************************************************)
WireTypes ==
    {"False", "True", "UInt64", "SInt64", "Bytes", "String", "Message", "Sequence"}

to_u8(wire_type) ==
    CASE wire_type = "False"    -> 0
      [] wire_type = "True"     -> 1
      [] wire_type = "UInt64"   -> 2
      [] wire_type = "SInt64"   -> 3
      [] wire_type = "Bytes"    -> 4
      [] wire_type = "String"   -> 5
      [] wire_type = "Message"  -> 6
      [] wire_type = "Sequence" -> 7

TAG_PREFIX == to_u8("UInt64")

\* n.to_le_bytes() restricted to its first k bytes; on a signed residue the
\* floor division and non-negative remainder give the two's-complement bytes.
RECURSIVE le_bytes(_, _)
le_bytes(n, k) ==
    IF k = 0 THEN <<>> ELSE <<n % 256>> \o le_bytes(n \div 256, k - 1)

to_le_bytes(n) == le_bytes(n, 8)

\* a < b as unsigned machine words, on signed residues
ULt(a, b) == IF (a < 0) = (b < 0) THEN a < b ELSE b < 0

\* a - b on usize, release build: wraps modulo 2^64
wrapping_sub(a, b) == a - b

(***************************************************************************)
(* Canonical encoders: the bytes each one feeds to the digest.             *)
(***************************************************************************)
hash_fixed(tag, wire_type, body) ==
    <<TAG_PREFIX>> \o to_le_bytes(tag) \o <<to_u8(wire_type)>> \o body

\* Mutant: false is hashed under the wire-type code of true.
hash_boolean_true_code(tag, value) ==
    hash_fixed(tag, "True", IF value THEN <<1>> ELSE <<0>>)

hash_boolean(tag, value) ==
    IF value THEN hash_fixed(tag, "True", <<1>>)
             ELSE hash_fixed(tag, "False", <<0>>)

hash_uint64(tag, value) == hash_fixed(tag, "UInt64", to_le_bytes(value))

hash_sint64(tag, value) == hash_fixed(tag, "SInt64", to_le_bytes(value))

\* Mutant: the declared length is left out of the prefix.
hash_dynamically_sized_value_no_length(tag, wire_type, length) ==
    <<TAG_PREFIX>> \o to_le_bytes(tag) \o <<to_u8(wire_type)>>

hash_dynamically_sized_value(tag, wire_type, length) ==
    <<TAG_PREFIX>> \o to_le_bytes(tag) \o <<to_u8(wire_type)>> \o to_le_bytes(length)

(***************************************************************************)
(* State (enum State) and Option<State>.                                   *)
(***************************************************************************)
Initial == [kind |-> "Initial"]
Header(h) == [kind |-> "Header", header |-> h]
Remaining(k, r) == [kind |-> k, remaining |-> r]
NoState == [kind |-> "None"]       \* Hasher.state = None: poisoned

RemainingKinds == {"Bytes", "String", "Message", "Sequence"}

(***************************************************************************)
(* Result of a transition: Ok(new state) with the bytes fed to the digest, *)
(* Err(Error::Hashing), or a panic.                                        *)
(***************************************************************************)
Ok(new_state, input) == [res |-> "ok", state |-> new_state, input |-> input]
Err == [res |-> "err", state |-> NoState, input |-> <<>>]
Panic == [res |-> "panic", state |-> NoState, input |-> <<>>]

\* Mutant: the `self == State::Initial` test is dropped.
handle_field_header_any_state(self, header) == Ok(Header(header), <<>>)

handle_field_header(self, header) ==
    IF self = Initial THEN Ok(Header(header), <<>>) ELSE Err

\* Mutant: the wire type is not compared with the pending header's.
handle_length_delimiter_unchecked(self, wire_type, length) ==
    IF self.kind = "Header"
    THEN IF wire_type \in RemainingKinds
         THEN Ok(Remaining(wire_type, length),
                 hash_dynamically_sized_value(self.header.tag, wire_type, length))
         ELSE Panic
    ELSE Err

\* Mutant: the prefix is hashed before the wire type is compared.
handle_length_delimiter_hashes_first(self, wire_type, length) ==
    IF self.kind = "Header"
    THEN LET input == hash_dynamically_sized_value(self.header.tag, wire_type, length)
         IN  IF wire_type # self.header.wire_type
             THEN [Err EXCEPT !.input = input]
             ELSE IF wire_type \in RemainingKinds
                  THEN Ok(Remaining(wire_type, length), input)
                  ELSE Panic
    ELSE Err

handle_length_delimiter(self, wire_type, length) ==
    IF self.kind = "Header"
    THEN IF wire_type # self.header.wire_type
         THEN Err
         ELSE IF wire_type \in RemainingKinds
              THEN Ok(Remaining(wire_type, length),
                      hash_dynamically_sized_value(self.header.tag, wire_type, length))
              ELSE Panic       \* unreachable!()
    ELSE Err

handle_fixed_sized_value(self, value) ==
    IF self.kind = "Header"
    THEN Ok(Initial,
            CASE value.type = "Bool"   -> hash_boolean(self.header.tag, value.value)
              [] value.type = "UInt64" -> hash_uint64(self.header.tag, value.value)
              [] value.type = "SInt64" -> hash_sint64(self.header.tag, value.value))
    ELSE Err

\* Mutant: the declared remaining is not compared with the difference.
chunk_check_ignores_declared(self, wire_type, bytes, new_remaining, overflow_checks, accepted) ==
    IF wire_type # self.kind
    THEN Err
    ELSE IF ULt(self.remaining, Len(bytes)) /\ overflow_checks
         THEN Panic
         ELSE accepted

\* `remaining - bytes.len() != new_remaining`: with overflow checks (debug
\* build) an underflowing subtraction panics, without them it wraps.
chunk_check(self, wire_type, bytes, new_remaining, overflow_checks, accepted) ==
    IF wire_type # self.kind
    THEN Err
    ELSE IF ULt(self.remaining, Len(bytes)) /\ overflow_checks
         THEN Panic
         ELSE IF wrapping_sub(self.remaining, Len(bytes)) # new_remaining
              THEN Err
              ELSE accepted

\* Mutant: the `new_remaining == 0` test is dropped, the variant is kept.
handle_value_chunk_keeps_zero(self, wire_type, bytes, new_remaining, overflow_checks) ==
    CASE self.kind \in {"Bytes", "String"} ->
           chunk_check(self, wire_type, bytes, new_remaining, overflow_checks,
               Ok(Remaining(self.kind, new_remaining), bytes))
      [] self.kind \in {"Message", "Sequence"} ->
           chunk_check(self, wire_type, bytes, new_remaining, overflow_checks,
               Ok(Remaining("Bytes", new_remaining), <<>>))
      [] OTHER -> Err

handle_value_chunk(self, wire_type, bytes, new_remaining, overflow_checks) ==
    CASE self.kind \in {"Bytes", "String"} ->
           \* falls through to digest.input(bytes)
           chunk_check(self, wire_type, bytes, new_remaining, overflow_checks,
               Ok(IF new_remaining = 0 THEN Initial
                  ELSE Remaining(self.kind, new_remaining), bytes))
      [] self.kind \in {"Message", "Sequence"} ->
           \* returns early: State::Bytes, and digest.input(bytes) is skipped
           chunk_check(self, wire_type, bytes, new_remaining, overflow_checks,
               Ok(IF new_remaining = 0 THEN Initial
                  ELSE Remaining("Bytes", new_remaining), <<>>))
      [] OTHER -> Err

\* Mutant: a sequence header starts over from State::Initial.
handle_sequence_header_resets(self, wire_type, length) == Ok(Initial, <<>>)

handle_sequence_header(self, wire_type, length) == Ok(self, <<>>)

transition(self, event, overflow_checks) ==
    CASE event.type = "FieldHeader" -> handle_field_header(self, event.header)
      [] event.type = "LengthDelimiter" ->
           handle_length_delimiter(self, event.wire_type, event.length)
      [] event.type \in {"Bool", "UInt64", "SInt64"} ->
           handle_fixed_sized_value(self, event)
      [] event.type = "ValueChunk" ->
           handle_value_chunk(self, event.wire_type, event.bytes, event.remaining,
                              overflow_checks)
      [] event.type = "SequenceHeader" ->
           handle_sequence_header(self, event.wire_type, event.length)

\* Mutant: a failed transition puts the old state back instead of leaving
\* the slot empty.
hash_event_restores_state(slot, event, overflow_checks) ==
    IF slot # NoState
    THEN LET r == transition(slot, event, overflow_checks)
         IN  IF r.res = "err" THEN [r EXCEPT !.state = slot] ELSE r
    ELSE Err

\* Hasher::hash_event on a Hasher whose state slot holds `slot`
hash_event(slot, event, overflow_checks) ==
    IF slot # NoState
    THEN transition(slot, event, overflow_checks)   \* `?` leaves the slot empty
    ELSE Err                                        \* Error::Failed

(***************************************************************************)
(* Events the decoder can deliver.                                         *)
(***************************************************************************)
Tags == 1..MaxTag
ByteVals == {97, 98}
UInt64Vals == {1, 42}
SInt64Vals == {-1, 1}
Lengths == 0..MaxLen
\* a declared remaining: small, or huge (the residues -MaxLen..-1)
Remainings == (0 - MaxLen)..MaxLen

RECURSIVE SeqsUpTo(_, _)
SeqsUpTo(S, n) ==
    IF n = 0 THEN {<<>>}
    ELSE LET shorter == SeqsUpTo(S, n - 1)
         IN  shorter \cup {Append(s, x) : s \in {t \in shorter : Len(t) = n - 1}, x \in S}

Chunks == SeqsUpTo(ByteVals, MaxChunk)

Events ==
    [type : {"FieldHeader"}, header : [tag : Tags, wire_type : WireTypes]]
    \cup [type : {"LengthDelimiter"}, wire_type : WireTypes, length : Lengths]
    \cup [type : {"Bool"}, value : BOOLEAN]
    \cup [type : {"UInt64"}, value : UInt64Vals]
    \cup [type : {"SInt64"}, value : SInt64Vals]
    \cup [type : {"ValueChunk"}, wire_type : WireTypes, bytes : Chunks,
          remaining : Remainings]
    \cup [type : {"SequenceHeader"}, wire_type : WireTypes, length : Lengths]

NoEvent == [type |-> "None"]

(***************************************************************************)
(* The Hasher and its caller.                                              *)
(***************************************************************************)
VARIABLES
    state,            \* Hasher.state (NoState when poisoned)
    digest,           \* bytes absorbed by Hasher.digest so far
    overflow_checks,  \* the build: TRUE with overflow checks (debug), else wrapping
    pc,               \* "ready": caller may call; "returned": a call just ended
    calls,            \* hash_event calls made
    event,            \* the event of the call that just ended
    result,           \* its outcome: "ok", "err" or "panic"
    pre_state,        \* Hasher.state when that call began
    pre_digest,       \* absorbed bytes when that call began
    failed,           \* some earlier call on this Hasher returned Err
    opened            \* the last accepted LengthDelimiter: its declared length
                      \* and the number of bytes absorbed once its prefix was

vars == <<state, digest, overflow_checks, pc, calls, event, result,
          pre_state, pre_digest, failed, opened>>

NoValue == [open |-> FALSE]

Init ==
    /\ state = Initial
    /\ digest = <<>>
    /\ overflow_checks \in BOOLEAN
    /\ pc = "ready"
    /\ calls = 0
    /\ event = NoEvent
    /\ result = "none"
    /\ pre_state = NoState
    /\ pre_digest = <<>>
    /\ failed = FALSE
    /\ opened = NoValue

\* One call hasher.hash_event(&e)
Call(e) ==
    /\ pc = "ready"
    /\ LET r == hash_event(state, e, overflow_checks)
       IN  /\ state' = r.state
           /\ digest' = digest \o r.input
           /\ result' = r.res
           /\ opened' = IF e.type = "LengthDelimiter" /\ r.res = "ok"
                         THEN [open |-> TRUE, length |-> e.length,
                               mark |-> Len(digest \o r.input)]
                         ELSE opened
    /\ event' = e
    /\ pre_state' = state
    /\ pre_digest' = digest
    /\ calls' = calls + 1
    /\ pc' = "returned"
    /\ UNCHANGED <<overflow_checks, failed>>

\* The caller delivers any event
HashEvent ==
    /\ calls < MaxCalls
    /\ \E e \in Events : Call(e)

\* The caller takes the Result; the borrow of the event ends
Return ==
    /\ pc = "returned"
    /\ failed' = (failed \/ result = "err")
    /\ event' = NoEvent
    /\ result' = "none"
    /\ pre_state' = NoState
    /\ pre_digest' = <<>>
    /\ pc' = "ready"
    /\ UNCHANGED <<state, digest, overflow_checks, calls, opened>>

Next == HashEvent \/ Return

Spec == Init /\ [][Next]_vars

(***************************************************************************)
(* The end-to-end stream: a UInt64 field of tag 1 and value 42, then a     *)
(* Bytes field of tag 2 and declared length 3 whose single chunk carries   *)
(* any 3 bytes and declares any remaining.                                 *)
(***************************************************************************)
ScenarioBytes == {97, 98, 99}

ScenarioContents == {c \in SeqsUpTo(ScenarioBytes, 3) : Len(c) = 3}

ScenarioEvents(i) ==
    CASE i = 1 -> {[type |-> "FieldHeader",
                    header |-> [tag |-> 1, wire_type |-> "UInt64"]]}
      [] i = 2 -> {[type |-> "UInt64", value |-> 42]}
      [] i = 3 -> {[type |-> "FieldHeader",
                    header |-> [tag |-> 2, wire_type |-> "Bytes"]]}
      [] i = 4 -> {[type |-> "LengthDelimiter", wire_type |-> "Bytes", length |-> 3]}
      [] i = 5 -> [type : {"ValueChunk"}, wire_type : {"Bytes"},
                   bytes : ScenarioContents, remaining : Remainings]
      [] OTHER -> {}

\* The caller delivers the next event of the stream
ScenarioHashEvent == \E e \in ScenarioEvents(calls + 1) : Call(e)

ScenarioNext == ScenarioHashEvent \/ Return

SpecScenario == Init /\ [][ScenarioNext]_vars

(***************************************************************************)
(* Properties.  Each is read in the state right after a call returned      *)
(* (pc = "returned"): pre_state/pre_digest are the Hasher before the call, *)
(* event the event delivered, result/state/digest the outcome.             *)
(***************************************************************************)
Returned == pc = "returned"

Scalars == {"Bool", "UInt64", "SInt64"}

\* the next hash_event call fails whatever event it is given
NextCallFails ==
    \A e \in Events : hash_event(state, e, overflow_checks).res = "err"

\* C1: poisoning is permanent: once a hash_event call on the Hasher has
\* returned failure, every later call, for every event, returns failure and
\* absorbs no bytes.
C1_PoisonPermanent ==
    (Returned /\ failed) => (result = "err" /\ digest = pre_digest)

\* a call after a failure, with an event that is accepted in every live state
C1_Witness ==
    Returned /\ failed /\ event.type = "SequenceHeader" /\ result = "err"

\* C2: a ValueChunk in Initial, a Bool/UInt64/SInt64 in Initial, and a
\* LengthDelimiter whose wire type differs from the pending Header's each
\* fail and leave the Hasher poisoned: the next call fails too.
MisSequenced(s, e) ==
    \/ s = Initial /\ e.type = "ValueChunk"
    \/ s = Initial /\ e.type \in Scalars
    \/ s.kind = "Header" /\ e.type = "LengthDelimiter"
                         /\ e.wire_type # s.header.wire_type

C2_MisSequencedRejected ==
    (Returned /\ MisSequenced(pre_state, event))
        => (result = "err" /\ state = NoState /\ NextCallFails)

\* a LengthDelimiter of a length-delimited wire type other than the header's
C2_Witness ==
    /\ Returned
    /\ pre_state.kind = "Header"
    /\ pre_state.header.wire_type = "Bytes"
    /\ event.type = "LengthDelimiter"
    /\ event.wire_type = "String"
    /\ result = "err"
    /\ state = NoState

\* C3: in a remaining-count state with counter r, a ValueChunk carrying more
\* than r bytes fails for every declared remaining: no panic, no wraparound.
C3_UnderflowRejected ==
    (/\ Returned
     /\ pre_state.kind \in RemainingKinds
     /\ event.type = "ValueChunk"
     /\ ULt(pre_state.remaining, Len(event.bytes)))
        => result = "err"

\* C4: in a remaining-count state with counter r, a ValueChunk of the matching
\* wire type is accepted if and only if len(bytes) <= r and the declared
\* remaining equals r - len(bytes).
C4_LengthAccounting ==
    (/\ Returned
     /\ pre_state.kind \in RemainingKinds
     /\ event.type = "ValueChunk"
     /\ event.wire_type = pre_state.kind)
        => (result = "ok" <=>
               (/\ ~ULt(pre_state.remaining, Len(event.bytes))
                /\ event.remaining = pre_state.remaining - Len(event.bytes)))

\* The ways to cut a content into consecutive non-empty chunks.
RECURSIVE Splittings(_)
Splittings(c) ==
    IF c = <<>> THEN {<<>>}
    ELSE UNION {{<<SubSeq(c, 1, k)>> \o rest :
                    rest \in Splittings(SubSeq(c, k + 1, Len(c)))} : k \in 1..Len(c)}

Contents(n) == {c \in SeqsUpTo(ByteVals, n) : Len(c) = n}

\* Deliver `chunks` as ValueChunk events of wire type wt, each declaring what
\* is left of `left` after it, to a Hasher whose slot holds `slot`.
RECURSIVE Feed(_, _, _, _, _)
Feed(slot, wt, chunks, left, oc) ==
    IF chunks = <<>>
    THEN [accepted |-> TRUE, state |-> slot, absorbed |-> <<>>]
    ELSE LET b == Head(chunks)
             e == [type |-> "ValueChunk", wire_type |-> wt, bytes |-> b,
                   remaining |-> left - Len(b)]
             r == hash_event(slot, e, oc)
         IN  IF r.res # "ok"
             THEN [accepted |-> FALSE, state |-> r.state, absorbed |-> r.input]
             ELSE LET t == Feed(r.state, wt, Tail(chunks), left - Len(b), oc)
                  IN  [accepted |-> t.accepted, state |-> t.state,
                       absorbed |-> r.input \o t.absorbed]

\* C5: chunk-boundary invariance: once LengthDelimiter{wt, N} is accepted,
\* any two splittings of a content of N bytes into consistent ValueChunk
\* events are both accepted and absorb the same byte sequence.
C5_ChunkBoundaryInvariance ==
    (Returned /\ event.type = "LengthDelimiter" /\ result = "ok")
        => \A c \in Contents(event.length) :
             \A s1, s2 \in Splittings(c) :
               LET f1 == Feed(state, event.wire_type, s1, Len(c), overflow_checks)
                   f2 == Feed(state, event.wire_type, s2, Len(c), overflow_checks)
               IN  f1.accepted /\ f2.accepted /\ f1.absorbed = f2.absorbed

\* C6: every accepted ValueChunk appends exactly its bytes to the absorbed
\* sequence, in each of the states Bytes, String, Message and Sequence.
C6_ChunkAbsorbedVerbatim ==
    (Returned /\ event.type = "ValueChunk" /\ result = "ok")
        => digest = pre_digest \o event.bytes

\* C7: in the remaining-count state of wire type wt with counter r, every
\* ValueChunk of wire type wt that declares r - len(bytes) is accepted; while
\* the declared remaining is non-zero the state stays the remaining-count
\* state of wt, and it becomes Initial exactly when 0 is declared.
Consistent(s, e) ==
    /\ s.kind \in RemainingKinds
    /\ e.type = "ValueChunk"
    /\ e.wire_type = s.kind
    /\ ~ULt(s.remaining, Len(e.bytes))
    /\ e.remaining = s.remaining - Len(e.bytes)

C7_MultiChunkCompletion ==
    (Returned /\ Consistent(pre_state, event))
        => /\ result = "ok"
           /\ state = IF event.remaining = 0 THEN Initial
                      ELSE Remaining(pre_state.kind, event.remaining)

\* C8: every call that returns for an event delivered in state Header(h)
\* either fails, or succeeds into Initial (a scalar) or a remaining-count
\* state (a LengthDelimiter); FieldHeader, ValueChunk and SequenceHeader fail
\* in Header state.
C8_HeaderConsumed ==
    (Returned /\ pre_state.kind = "Header" /\ result # "panic")
        => /\ \/ result = "err"
              \/ result = "ok" /\ event.type \in Scalars /\ state = Initial
              \/ result = "ok" /\ event.type = "LengthDelimiter"
                               /\ state.kind \in RemainingKinds
           /\ event.type \in {"FieldHeader", "ValueChunk", "SequenceHeader"}
                => result = "err"

\* C9: for every reachable state and every event, hash_event returns success
\* or failure; it never panics.
C9_NeverPanics ==
    Returned => result \in {"ok", "err"}

\* C10 as stated: in every reachable remaining-count state the counter is
\* strictly greater than 0.
C10_RemainingPositive ==
    state.kind \in RemainingKinds => ULt(0, state.remaining)

\* C10 amended: an accepted ValueChunk leaves Initial exactly when it declares
\* remaining 0 and otherwise a remaining-count state with the declared
\* counter, greater than 0; a remaining-count state with counter 0 is entered
\* only by a LengthDelimiter declaring length 0 (and kept by a SequenceHeader).
C10_ZeroOnlyFromLengthDelimiter ==
    /\ (Returned /\ event.type = "ValueChunk" /\ result = "ok")
         => /\ (event.remaining = 0) <=> (state = Initial)
            /\ event.remaining # 0
                 => /\ state.kind \in RemainingKinds
                    /\ state.remaining = event.remaining
                    /\ ULt(0, state.remaining)
    /\ (Returned /\ state.kind \in RemainingKinds /\ state.remaining = 0)
         => \/ result = "ok" /\ event.type = "LengthDelimiter" /\ event.length = 0
            \/ result = "ok" /\ event.type = "SequenceHeader" /\ pre_state = state

\* an accepted chunk that leaves the value open, with a counter above 0
C10_Witness ==
    /\ Returned
    /\ event.type = "ValueChunk"
    /\ result = "ok"
    /\ Len(event.bytes) > 0
    /\ state.kind \in RemainingKinds
    /\ state.remaining = event.remaining

\* The 8 little-endian bytes of a word, written out for -256 <= n < 256
\* (two's complement below 0).
Word8(n) ==
    IF n >= 0 THEN <<n, 0, 0, 0, 0, 0, 0, 0>>
    ELSE <<256 + n, 255, 255, 255, 255, 255, 255, 255>>

\* wire-type code and body the claim gives for a scalar event
ScalarCode(e) ==
    CASE e.type = "Bool" /\ e.value  -> to_u8("True")
      [] e.type = "Bool" /\ ~e.value -> to_u8("False")
      [] e.type = "UInt64"           -> to_u8("UInt64")
      [] e.type = "SInt64"           -> to_u8("SInt64")

ScalarBody(e) ==
    CASE e.type = "Bool" /\ e.value  -> <<1>>
      [] e.type = "Bool" /\ ~e.value -> <<0>>
      [] e.type \in {"UInt64", "SInt64"} -> Word8(e.value)

\* C11: a Bool, UInt64 or SInt64 event accepted in Header(h) appends exactly
\* [UInt64 code][h.tag, 8 bytes little-endian][wire-type code][body] and moves
\* to Initial; the body is 0x01 under the True code, 0x00 under the False
\* code, or the 8 little-endian bytes of the integer.
C11_FixedWidthEncoding ==
    (/\ Returned
     /\ pre_state.kind = "Header"
     /\ event.type \in Scalars
     /\ result = "ok")
        => /\ state = Initial
           /\ digest = pre_digest \o <<to_u8("UInt64")>>
                          \o Word8(pre_state.header.tag)
                          \o <<ScalarCode(event)>> \o ScalarBody(event)

\* Bool(false) accepted under a header of tag 2
C11_Witness ==
    /\ Returned
    /\ pre_state.kind = "Header"
    /\ pre_state.header.tag = 2
    /\ event.type = "Bool"
    /\ ~event.value
    /\ result = "ok"
    /\ state = Initial

\* C12: a LengthDelimiter{wt, len} accepted in Header(h) appends exactly
\* [UInt64 code][h.tag, 8 bytes LE][code of wt][len, 8 bytes LE] and moves to
\* the remaining-count state of wt with remaining = len; an event accepted
\* while the value is open appends nothing but a chunk's own bytes.
C12_LengthDelimitedHeader ==
    /\ (/\ Returned
        /\ pre_state.kind = "Header"
        /\ event.type = "LengthDelimiter"
        /\ result = "ok")
           => /\ state = Remaining(event.wire_type, event.length)
              /\ digest = pre_digest \o <<to_u8("UInt64")>>
                             \o Word8(pre_state.header.tag)
                             \o <<to_u8(event.wire_type)>> \o Word8(event.length)
    /\ (Returned /\ pre_state.kind \in RemainingKinds /\ result = "ok")
           => \/ digest = pre_digest
              \/ event.type = "ValueChunk" /\ digest = pre_digest \o event.bytes

\* a Sequence of declared length 2 opened under tag 2
C12_Witness ==
    /\ Returned
    /\ pre_state.kind = "Header"
    /\ pre_state.header.tag = 2
    /\ event.type = "LengthDelimiter"
    /\ event.wire_type = "Sequence"
    /\ event.length = 2
    /\ result = "ok"

\* C13: on a fresh Hasher the stream FieldHeader(1, UInt64), UInt64(42),
\* FieldHeader(2, Bytes), LengthDelimiter(Bytes, 3), ValueChunk(Bytes,
\* [0x61,0x62,0x63], remaining 0) succeeds on every call and ends in Initial;
\* with the ValueChunk declaring remaining 1 it fails on the ValueChunk.
ScenarioChunk(remaining) ==
    [type |-> "ValueChunk", wire_type |-> "Bytes", bytes |-> <<97, 98, 99>>,
     remaining |-> remaining]

C13_EndToEnd ==
    Returned =>
        /\ calls < 5 => result = "ok"
        /\ (calls = 5 /\ event = ScenarioChunk(0)) => (result = "ok" /\ state = Initial)
        /\ (calls = 5 /\ event = ScenarioChunk(1)) => result = "err"

\* the fifth call of the stream, accepted
C13_Witness ==
    /\ Returned
    /\ calls = 5
    /\ event = ScenarioChunk(0)
    /\ pre_state = Remaining("Bytes", 3)
    /\ state = Initial

\* A field is a FieldHeader followed by its value event: a scalar, or a
\* LengthDelimiter that carries the header's wire type.
Headers == [tag : Tags, wire_type : WireTypes]

FieldValues ==
    [type : {"Bool"}, value : BOOLEAN]
    \cup [type : {"UInt64"}, value : UInt64Vals]
    \cup [type : {"SInt64"}, value : SInt64Vals]
    \cup [type : {"LengthDelimiter"}, length : Lengths]

ValueEvent(h, v) ==
    IF v.type = "LengthDelimiter"
    THEN [type |-> "LengthDelimiter", wire_type |-> h.wire_type, length |-> v.length]
    ELSE v

DifferOnlyInTag(h1, h2) == h1.tag # h2.tag /\ h1.wire_type = h2.wire_type

DifferOnlyInWireType(h1, h2) == h1.tag = h2.tag /\ h1.wire_type # h2.wire_type

\* C14: two accepted fields that differ only in the tag of their FieldHeader,
\* or only in its wire type, absorb different prefixes, for fixed-width
\* values and for length-delimited headers.
C14_TagTypeBinding ==
    (Returned /\ event.type = "FieldHeader" /\ result = "ok")
        => \A h2 \in Headers :
             (DifferOnlyInTag(event.header, h2) \/ DifferOnlyInWireType(event.header, h2))
               => \A v \in FieldValues :
                    LET other == [type |-> "FieldHeader", header |-> h2]
                        s2 == hash_event(pre_state, other, overflow_checks).state
                        r1 == hash_event(state, ValueEvent(event.header, v),
                                         overflow_checks)
                        r2 == hash_event(s2, ValueEvent(h2, v), overflow_checks)
                    IN  (r1.res = "ok" /\ r2.res = "ok") => r1.input # r2.input

\* C16: a SequenceHeader delivered in Initial or in a remaining-count state
\* succeeds and changes neither the state nor the absorbed bytes, whatever
\* wire type and length it carries.
C16_SequenceHeaderNoOp ==
    (/\ Returned
     /\ event.type = "SequenceHeader"
     /\ pre_state.kind \in {"Initial"} \cup RemainingKinds)
        => (result = "ok" /\ state = pre_state /\ digest = pre_digest)

\* a SequenceHeader while a String value is open
C16_Witness ==
    /\ Returned
    /\ event.type = "SequenceHeader"
    /\ pre_state.kind = "String"
    /\ result = "ok"
    /\ state = pre_state

\* C17: a FieldHeader(h) is accepted only in Initial, where it absorbs nothing
\* and makes the state Header(h); in Header state and in every
\* remaining-count state it fails.
C17_FieldHeaderOnlyInInitial ==
    (Returned /\ event.type = "FieldHeader")
        => /\ pre_state = Initial
                => (result = "ok" /\ state = Header(event.header)
                                  /\ digest = pre_digest)
           /\ pre_state # Initial => result = "err"

\* a FieldHeader while a length-delimited value is open
C17_Witness ==
    /\ Returned
    /\ event.type = "FieldHeader"
    /\ pre_state.kind \in RemainingKinds
    /\ result = "err"

\* C18: a hash_event call that returns failure absorbs nothing.
C18_FailureAbsorbsNothing ==
    (Returned /\ result = "err") => digest = pre_digest

\* a LengthDelimiter rejected for its wire type, after a field was absorbed
C18_Witness ==
    /\ Returned
    /\ result = "err"
    /\ pre_state.kind = "Header"
    /\ event.type = "LengthDelimiter"
    /\ event.wire_type \in RemainingKinds
    /\ Len(pre_digest) > 0
    /\ digest = pre_digest

\* C19: when a value opened by LengthDelimiter{wt, len} completes (a
\* ValueChunk returns the state to Initial), the bytes absorbed since that
\* LengthDelimiter's prefix number len.
C19_LengthBindsContent ==
    (/\ Returned
     /\ event.type = "ValueChunk"
     /\ result = "ok"
     /\ state = Initial
     /\ opened.open)
        => Len(digest) - opened.mark = opened.length

\* C20: a Bool/UInt64/SInt64 event is accepted in Header(h) only when its
\* kind agrees with h.wire_type, a scalar under a header of another wire type
\* fails, and the wire-type code absorbed is the code of h.wire_type.
KindAgrees(e, wire_type) ==
    \/ e.type = "Bool" /\ e.value /\ wire_type = "True"
    \/ e.type = "Bool" /\ ~e.value /\ wire_type = "False"
    \/ e.type = "UInt64" /\ wire_type = "UInt64"
    \/ e.type = "SInt64" /\ wire_type = "SInt64"

C20_ScalarMatchesHeader ==
    (Returned /\ pre_state.kind = "Header" /\ event.type \in Scalars)
        => /\ result = "ok" => KindAgrees(event, pre_state.header.wire_type)
           /\ ~KindAgrees(event, pre_state.header.wire_type) => result = "err"
           /\ result = "ok"
                => digest[Len(pre_digest) + 10] = to_u8(pre_state.header.wire_type)
====
